---------------------------- MODULE Spec2Model ----------------------------
(***************************************************************************)
(* A model of json_patch_ext (src/src/lib.rs): JSON Patch extended with    *)
(* the `*` path segment.  `matches` and `patch_ext` are pure functions of  *)
(* a document and a pointer, so the state machine draws a document from a  *)
(* bounded family, applies one call to it and records what came back.      *)
(*                                                                         *)
(* A pointer is what jsonptr's Pointer is: a string, here a sequence of    *)
(* one-character strings, in which every token is preceded by "/" and      *)
(* "~" and "/" inside a token are written "~0" and "~1".  Object keys are  *)
(* decoded tokens.  A `&mut Value` handed out by patch_ext_helper is       *)
(* modelled by the concrete pointer of the node it refers to.              *)
(***************************************************************************)
EXTENDS Integers, Sequences, FiniteSets, TLC

VARIABLES doc, pre, op, res, out, tgts

vars == <<doc, pre, op, res, out, tgts>>

\* Largest array length in the documents Init draws from.
MaxLen == 2

-----------------------------------------------------------------------------
(* serde_json::Value *)

Null == [t |-> "null"]
Num(n) == [t |-> "num", n |-> n]
Arr(s) == [t |-> "arr", a |-> s]
Obj(f) == [t |-> "obj", o |-> f]

EmptyMap == [x \in {} |-> Null]

\* json!({}) and json!([])
EmptyObj == Obj(EmptyMap)
EmptyArr == Arr(<<>>)

\* serde_json::Map::insert: the key is added or its value overwritten
MapInsert(f, key, v) == [x \in (DOMAIN f) \cup {key} |-> IF x = key THEN v ELSE f[x]]

\* serde_json::Map::remove: nothing happens when the key is absent
MapRemove(f, key) == [x \in (DOMAIN f) \ {key} |-> f[x]]

\* Vec::insert(idx, v) with a 0-based idx <= len: later elements shift up
VecInsert(s, idx, v) == SubSeq(s, 1, idx) \o <<v>> \o SubSeq(s, idx + 1, Len(s))

\* Vec::remove(idx) with a 0-based idx < len: later elements shift down
VecRemove(s, idx) == SubSeq(s, 1, idx) \o SubSeq(s, idx + 2, Len(s))

\* vec[idx] = v with a 0-based idx < len
VecSet(s, idx, v) == [s EXCEPT ![idx + 1] = v]

-----------------------------------------------------------------------------
(* jsonptr: tokens and pointers as strings *)

Digits == <<"0", "1", "2", "3", "4", "5", "6", "7", "8", "9">>

DigitVal(c) == CHOOSE d \in 0..9 : Digits[d + 1] = c

IsDigit(c) == \E d \in 0..9 : Digits[d + 1] = c

\* format!("{i}")
RECURSIVE Dec(_)
Dec(i) == IF i < 10 THEN <<Digits[i + 1]>> ELSE Dec(i \div 10) \o <<Digits[(i % 10) + 1]>>

\* Token::encoded: "~" is written "~0" and "/" is written "~1"
RECURSIVE Encode(_)
Encode(s) ==
  IF s = <<>> THEN <<>>
  ELSE (CASE Head(s) = "~" -> <<"~", "0">>
          [] Head(s) = "/" -> <<"~", "1">>
          [] OTHER -> <<Head(s)>>) \o Encode(Tail(s))

\* Token::decoded
RECURSIVE Decode(_)
Decode(s) ==
  IF s = <<>> THEN <<>>
  ELSE IF Head(s) = "~" /\ Len(s) >= 2 /\ s[2] = "0" THEN <<"~">> \o Decode(Tail(Tail(s)))
  ELSE IF Head(s) = "~" /\ Len(s) >= 2 /\ s[2] = "1" THEN <<"/">> \o Decode(Tail(Tail(s)))
  ELSE <<Head(s)>> \o Decode(Tail(s))

\* escape(input)
escape(input) == Encode(input)

\* The pointer "" (Pointer::root)
Root == <<>>

\* PointerBuf::from_tokens: the pointer whose tokens are the given decoded strings
RECURSIVE FromTokens(_)
FromTokens(toks) ==
  IF toks = <<>> THEN Root
  ELSE <<"/">> \o Encode(Head(toks)) \o FromTokens(Tail(toks))

\* Offset (0-based) of the first "/" after the first character of s, or Len(s)
RECURSIVE NextSlash(_, _)
NextSlash(s, i) ==
  IF i > Len(s) THEN Len(s)
  ELSE IF s[i] = "/" THEN i - 1
  ELSE NextSlash(s, i + 1)

\* Offset (0-based) of the last "/" of a non-root pointer
RECURSIVE LastSlash(_, _)
LastSlash(s, i) == IF s[i] = "/" THEN i - 1 ELSE LastSlash(s, i - 1)

\* Pointer::split_front: the first token (encoded) and the pointer after it
HasFront(p) == p # Root
FrontTok(p) == SubSeq(p, 2, NextSlash(p, 2))
FrontRest(p) == SubSeq(p, NextSlash(p, 2) + 1, Len(p))

\* Pointer::split_back: the pointer before the last token, and that token (encoded)
HasBack(p) == p # Root
BackInit(p) == SubSeq(p, 1, LastSlash(p, Len(p)))
BackTok(p) == SubSeq(p, LastSlash(p, Len(p)) + 2, Len(p))

\* Pointer::concat
Concat(p, q) == p \o q

\* path.as_str().find("/*"): the 0-based offset of the first "/" that is
\* directly followed by "*", or -1 for None
RECURSIVE FindFrom(_, _)
FindFrom(s, i) ==
  IF i + 1 > Len(s) THEN -1
  ELSE IF s[i] = "/" /\ s[i + 1] = "*" THEN i - 1
  ELSE FindFrom(s, i + 1)

FindStar(p) == FindFrom(p, 1)

\* Pointer::split_at(idx) for an offset that holds a "/"
SplitHead(p, idx) == SubSeq(p, 1, idx)
SplitCons(p, idx) == SubSeq(p, idx + 1, Len(p))

\* Token::to_index: "-" is Index::Next, a decimal numeral without a leading
\* zero is Index::Num, anything else is a ParseIndexError
RECURSIVE NumVal(_, _)
NumVal(s, acc) == IF s = <<>> THEN acc ELSE NumVal(Tail(s), 10 * acc + DigitVal(Head(s)))

ToIndex(tok) ==
  IF tok = <<"-">> THEN [k |-> "next"]
  ELSE IF tok = <<>> \/ (\E i \in 1..Len(tok) : ~IsDigit(tok[i])) THEN [k |-> "err"]
  ELSE IF Len(tok) > 1 /\ tok[1] = "0" THEN [k |-> "err"]
  ELSE [k |-> "num", n |-> NumVal(tok, 0)]

-----------------------------------------------------------------------------
(* jsonptr: resolve and assign on serde_json values *)

Fail == [ok |-> FALSE]
Found(v) == [ok |-> TRUE, v |-> v]

\* Pointer::resolve / resolve_mut: walk the tokens; an array takes an index
\* inside its bounds, an object a key it holds, a scalar nothing
RECURSIVE Resolve(_, _)
Resolve(p, v) ==
  IF ~HasFront(p) THEN Found(v)
  ELSE LET tok == FrontTok(p)
           rest == FrontRest(p)
       IN CASE v.t = "arr" ->
                 LET ix == ToIndex(tok)
                 IN IF ix.k = "num" /\ ix.n < Len(v.a)
                    THEN Resolve(rest, v.a[ix.n + 1])
                    ELSE Fail
            [] v.t = "obj" ->
                 IF Decode(tok) \in DOMAIN v.o
                 THEN Resolve(rest, v.o[Decode(tok)])
                 ELSE Fail
            [] OTHER -> Fail

\* jsonptr's expansion of the tokens that are left when assign runs off the
\* document: "0" and "-" make a one-element array, any other token an object
RECURSIVE Expand(_, _)
Expand(remaining, value) ==
  IF ~HasBack(remaining) THEN value
  ELSE LET tok == BackTok(remaining)
       IN Expand(BackInit(remaining),
                 IF tok \in {<<"0">>, <<"-">>}
                 THEN Arr(<<value>>)
                 ELSE Obj(MapInsert(EmptyMap, Decode(tok), value)))

\* Pointer::assign(dest, src): replace the node at the pointer, creating
\* what is missing on the way; an array refuses a token that is no index of
\* it or one past its end (AssignError)
RECURSIVE Assign(_, _, _)
Assign(p, dest, src) ==
  IF ~HasFront(p) THEN Found(src)
  ELSE LET tok == FrontTok(p)
           rest == FrontRest(p)
       IN CASE dest.t = "arr" ->
                 LET ix == ToIndex(tok)
                     n == IF ix.k = "next" THEN Len(dest.a) ELSE ix.n
                 IN IF ix.k = "err" \/ n > Len(dest.a) THEN Fail
                    ELSE IF n < Len(dest.a)
                    THEN LET sub == Assign(rest, dest.a[n + 1], src)
                         IN IF sub.ok THEN Found(Arr(VecSet(dest.a, n, sub.v))) ELSE Fail
                    ELSE Found(Arr(Append(dest.a, Expand(rest, src))))
            [] dest.t = "obj" ->
                 LET key == Decode(tok)
                 IN IF key \in DOMAIN dest.o
                    THEN LET sub == Assign(rest, dest.o[key], src)
                         IN IF sub.ok THEN Found(Obj(MapInsert(dest.o, key, sub.v))) ELSE Fail
                    ELSE Found(Obj(MapInsert(dest.o, key, Expand(rest, src))))
            [] OTHER -> Found(Expand(p, src))

\* A write through the reference that the resolving pointer p stands for
RECURSIVE SetAt(_, _, _)
SetAt(v, p, new) ==
  IF ~HasFront(p) THEN new
  ELSE LET tok == FrontTok(p)
           rest == FrontRest(p)
       IN IF v.t = "arr"
          THEN LET n == ToIndex(tok).n
               IN Arr(VecSet(v.a, n, SetAt(v.a[n + 1], rest, new)))
          ELSE LET key == Decode(tok)
               IN Obj(MapInsert(v.o, key, SetAt(v.o[key], rest, new)))

-----------------------------------------------------------------------------
(* matches *)

Match(p, v) == [p |-> p, v |-> v]

\* format!("/{i}") parsed as a pointer
IdxPath(i) == <<"/">> \o Dec(i)

\* subpaths.iter().map(|(p, v)| (head.concat(&idx_path.concat(p)), *v))
Prefixed(head, i, subpaths) ==
  [j \in 1..Len(subpaths) |->
     Match(Concat(head, Concat(IdxPath(i), subpaths[j].p)), subpaths[j].v)]

RECURSIVE matches(_, _), MatchLoop(_, _, _, _)

\* for (i, v) in next_array_val.iter().enumerate(), from element i on
MatchLoop(head, cons, array, i) ==
  IF i >= Len(array) THEN <<>>
  ELSE Prefixed(head, i, matches(FrontRest(cons), array[i + 1]))
         \o MatchLoop(head, cons, array, i + 1)

matches(path, value) ==
  LET idx == FindStar(path)
  IN IF idx = -1
     THEN IF Resolve(path, value).ok
          THEN <<Match(path, Resolve(path, value).v)>>
          ELSE <<>>
     ELSE LET head == SplitHead(path, idx)
              cons == SplitCons(path, idx)
              head_val == Resolve(head, value)
          IN IF ~head_val.ok THEN <<>>
             ELSE IF head_val.v.t # "arr" THEN <<>>
             ELSE MatchLoop(head, cons, head_val.v.a, 0)

-----------------------------------------------------------------------------
(* patch_ext_helper *)

\* F(v), with v evaluated once before F uses it
Bind(v, F(_)) == CHOOSE r \in {F(x) : x \in {v}} : TRUE

\* What a call leaves behind: the error it returned ("Ok" for none), the
\* value as the call left it, and the references it returned
Helped(err, val, refs) == [err |-> err, val |-> val, refs |-> refs]

RECURSIVE patch_ext_helper(_, _, _), HelperLoop(_, _, _, _, _, _)

\* for v in next_array_val, from element i on; array holds the elements as
\* the earlier iterations left them and res_ the references collected so far
HelperLoop(head, cons, array, i, mode, res_) ==
  IF i >= Len(array) THEN Helped("Ok", Arr(array), res_)
  ELSE Bind(patch_ext_helper(FrontRest(cons), array[i + 1], mode), LAMBDA sub :
         IF sub.err # "Ok" THEN Helped(sub.err, Arr(VecSet(array, i, sub.val)), <<>>)
         ELSE Bind(<<VecSet(array, i, sub.val),
                     res_ \o [j \in 1..Len(sub.refs) |->
                                Concat(head, Concat(IdxPath(i), sub.refs[j]))]>>,
                   LAMBDA nx : HelperLoop(head, cons, nx[1], i + 1, mode, nx[2])))

\* The part of patch_ext_helper after `let (head, cons) = path.split_at(idx)`
HelperStar(path, head, cons, value, mode) ==
  Bind(Resolve(head, value), LAMBDA found :
    IF ~found.ok /\ mode = "Error" THEN Helped("TargetDoesNotExist", value, <<>>)
    ELSE IF ~found.ok /\ mode = "Skip" THEN Helped("Ok", value, <<>>)
    ELSE Bind(IF found.ok THEN Found(value) ELSE Assign(path, value, EmptyArr), LAMBDA made :
      IF ~made.ok THEN Helped("AssignError", value, <<>>)
      ELSE Bind(Resolve(head, made.v), LAMBDA head_val :
        IF ~head_val.ok THEN Helped("ResolveError", made.v, <<>>)
        ELSE IF head_val.v.t # "arr" THEN Helped("UnexpectedType", made.v, <<>>)
        ELSE Bind(HelperLoop(head, cons, head_val.v.a, 0, mode, <<>>), LAMBDA looped :
               Helped(looped.err, SetAt(made.v, head, looped.val), looped.refs)))))

\* The part of patch_ext_helper for a path in which find("/*") finds nothing
HelperPlain(path, value, mode) ==
  IF Resolve(path, value).ok THEN Helped("Ok", value, <<path>>)
  ELSE IF mode = "Error" THEN Helped("TargetDoesNotExist", value, <<>>)
  ELSE IF mode = "Skip" THEN Helped("Ok", value, <<>>)
  ELSE Bind(Assign(path, value, EmptyObj), LAMBDA asg :
         IF ~asg.ok THEN Helped("AssignError", value, <<>>)
         ELSE IF ~Resolve(path, asg.v).ok THEN Helped("ResolveError", asg.v, <<>>)
         ELSE Helped("Ok", asg.v, <<path>>))

patch_ext_helper(path, value, mode) ==
  Bind(FindStar(path), LAMBDA idx :
    IF idx = -1 THEN HelperPlain(path, value, mode)
    ELSE Bind(<<SplitHead(path, idx), SplitCons(path, idx)>>, LAMBDA hc :
           HelperStar(path, hc[1], hc[2], value, mode)))

-----------------------------------------------------------------------------
(* add_or_replace, remove, patch_ext *)

\* What patch_ext leaves behind: its result, the document, and what
\* patch_ext_helper returned to it
Patched(err, val, helped) == [err |-> err, val |-> val, helped |-> helped]

\* No call of patch_ext_helper was made
NoHelp == Helped("None", Null, <<>>)

\* The body of add_or_replace's loop for one target v
AddEdit(v, path, tail, value, replace) ==
  IF v.t = "obj"
  THEN IF replace /\ Decode(tail) \notin DOMAIN v.o
       THEN [err |-> "TargetDoesNotExist", v |-> v]
       ELSE [err |-> "Ok", v |-> Obj(MapInsert(v.o, Decode(tail), value))]
  ELSE IF v.t = "arr"
  THEN Bind(ToIndex(Decode(tail)), LAMBDA ix :
         IF ix.k = "err" THEN [err |-> "ParseIndexError", v |-> v]
         ELSE IF ix.k = "next" THEN [err |-> "Ok", v |-> Arr(Append(v.a, value))]
         ELSE IF ix.n >= Len(v.a) THEN [err |-> "OutOfBounds", v |-> v]
         ELSE IF replace THEN [err |-> "Ok", v |-> Arr(VecSet(v.a, ix.n, value))]
         ELSE [err |-> "Ok", v |-> Arr(VecInsert(v.a, ix.n, value))])
  ELSE [err |-> "UnexpectedType", v |-> v]

\* for v in patch_ext_helper(..)?, from the i-th reference on
RECURSIVE AddLoop(_, _, _, _, _, _, _)
AddLoop(obj, refs, i, path, tail, value, replace) ==
  IF i > Len(refs) THEN [err |-> "Ok", v |-> obj]
  ELSE Bind(AddEdit(Resolve(refs[i], obj).v, path, tail, value, replace), LAMBDA e :
         IF e.err # "Ok" THEN [err |-> e.err, v |-> obj]
         ELSE Bind(SetAt(obj, refs[i], e.v), LAMBDA obj2 :
                AddLoop(obj2, refs, i + 1, path, tail, value, replace)))

\* A variant that hands back the document as it was when an edit fails
AddOrReplaceRollsBack(obj, path, value, replace) ==
  Bind(patch_ext_helper(BackInit(path), obj, IF replace THEN "Error" ELSE "Create"),
       LAMBDA h :
    IF h.err # "Ok" THEN Patched(h.err, h.val, h)
    ELSE Bind(AddLoop(h.val, h.refs, 1, path, BackTok(path), value, replace), LAMBDA l :
           Patched(l.err, IF l.err = "Ok" THEN l.v ELSE h.val, h)))

\* add_or_replace once path.split_back() has given (subpath, tail)
AddOrReplaceAt(obj, path, value, replace) ==
  Bind(patch_ext_helper(BackInit(path), obj, IF replace THEN "Error" ELSE "Create"),
       LAMBDA h :
    IF h.err # "Ok" THEN Patched(h.err, h.val, h)
    ELSE Bind(AddLoop(h.val, h.refs, 1, path, BackTok(path), value, replace), LAMBDA l :
           Patched(l.err, l.v, h)))

\* A variant in which the root path installs the value as the document
AddOrReplaceSetsRoot(obj, path, value, replace) ==
  IF ~HasBack(path) THEN Patched("Ok", value, NoHelp)
  ELSE AddOrReplaceAt(obj, path, value, replace)

add_or_replace(obj, path, value, replace) ==
  IF ~HasBack(path) THEN Patched("Ok", obj, NoHelp)
  ELSE AddOrReplaceAt(obj, path, value, replace)

\* The body of remove's loop for one target v
RemoveEdit(v, key) ==
  IF v.t = "obj" THEN [err |-> "Ok", v |-> Obj(MapRemove(v.o, Decode(key)))]
  ELSE IF v.t = "arr"
  THEN IF Decode(key) = <<"*">> THEN [err |-> "Ok", v |-> Arr(<<>>)]
       ELSE Bind(ToIndex(Decode(key)), LAMBDA ix :
              IF ix.k = "err" THEN [err |-> "ParseIndexError", v |-> v]
              ELSE IF ix.k = "next" THEN [err |-> "UnexpectedType", v |-> v]
              ELSE IF ix.n >= Len(v.a) THEN [err |-> "OutOfBounds", v |-> v]
              ELSE [err |-> "Ok", v |-> Arr(VecRemove(v.a, ix.n))])
  ELSE [err |-> "UnexpectedType", v |-> v]

\* for v in patch_ext_helper(..)?, from the i-th reference on
RECURSIVE RemoveLoop(_, _, _, _)
RemoveLoop(obj, refs, i, key) ==
  IF i > Len(refs) THEN [err |-> "Ok", v |-> obj]
  ELSE Bind(RemoveEdit(Resolve(refs[i], obj).v, key), LAMBDA e :
         IF e.err # "Ok" THEN [err |-> e.err, v |-> obj]
         ELSE Bind(SetAt(obj, refs[i], e.v), LAMBDA obj2 :
                RemoveLoop(obj2, refs, i + 1, key)))

remove(obj, path) ==
  IF ~HasBack(path) THEN Patched("Ok", Null, NoHelp)
  ELSE Bind(patch_ext_helper(BackInit(path), obj, "Skip"), LAMBDA h :
         IF h.err # "Ok" THEN Patched(h.err, h.val, h)
         ELSE Bind(RemoveLoop(h.val, h.refs, 1, BackTok(path)), LAMBDA l :
                Patched(l.err, l.v, h)))

\* patch_ext for the three operations it handles itself
patch_ext(obj, p) ==
  IF p.kind = "add" THEN add_or_replace(obj, p.path, p.value, FALSE)
  ELSE IF p.kind = "remove" THEN remove(obj, p.path)
  ELSE add_or_replace(obj, p.path, p.value, TRUE)

-----------------------------------------------------------------------------
(* The inputs: documents, pointers and values *)

Foo == <<"f", "o", "o">>
Baz == <<"b", "a", "z">>
Buzz == <<"b", "u", "z", "z">>
Quzz == <<"q", "u", "z", "z">>
Star == <<"*">>
StarBar == <<"*", "b", "a", "r">>
Zero == <<"0">>
One == <<"1">>
Dash == <<"-">>

SeqsUpTo(S, n) == UNION {[1..m -> S] : m \in 0..n}

Single(key, v) == Obj(MapInsert(EmptyMap, key, v))

LeafObjs ==
  {Obj([k \in K |-> IF k = Buzz THEN Num(0) ELSE Num(1)]) : K \in SUBSET {Buzz, Quzz}}

Scalars == {Num(7)}

BazElems == {Single(Baz, x) : x \in LeafObjs \cup Scalars} \cup {EmptyObj}

FooDocs == {Single(Foo, Arr(s)) : s \in SeqsUpTo(BazElems, MaxLen)}

RootArrs == {Arr(s) : s \in SeqsUpTo(LeafObjs \cup Scalars, MaxLen)}

InnerArrs == {Arr(s) : s \in SeqsUpTo(Scalars, MaxLen)}

NestedArrs == {Arr(s) : s \in SeqsUpTo(InnerArrs \cup Scalars, MaxLen)}

DeepArrs == {Arr(<<x>>) : x \in NestedArrs} \cup {Single(Foo, x) : x \in NestedArrs}

StarKeyDocs ==
  {Single(key, x) : key \in {StarBar, Star},
                    x \in LeafObjs \cup Scalars
                            \cup {EmptyArr, Arr(<<Num(7)>>), Arr(<<EmptyObj, Single(Buzz, Num(0))>>)}}

FlatDocs ==
  LeafObjs \cup Scalars \cup {Null}
    \cup {Single(Foo, x) : x \in LeafObjs \cup Scalars \cup {Single(Star, Num(7))}}

Docs == FooDocs \cup RootArrs \cup NestedArrs \cup DeepArrs \cup StarKeyDocs \cup FlatDocs

Paths ==
  {FromTokens(toks) : toks \in
     {<<>>, <<Foo>>, <<Buzz>>, <<Zero>>, <<Dash>>, <<Star>>, <<StarBar>>,
      <<Foo, Star>>, <<Foo, Zero>>, <<Foo, One>>, <<Foo, Dash>>, <<Foo, Baz>>,
      <<Foo, Buzz>>, <<Baz, Buzz>>, <<Zero, Buzz>>, <<Dash, Buzz>>,
      <<Star, Buzz>>, <<Star, Star>>, <<Star, Zero>>, <<Star, Dash>>,
      <<StarBar, Buzz>>, <<StarBar, Star>>, <<StarBar, Zero>>,
      <<Foo, Star, Baz>>, <<Foo, Star, Buzz>>, <<Foo, Star, Star>>,
      <<Foo, Baz, Buzz>>, <<Foo, Zero, Buzz>>, <<Foo, Zero, Baz>>,
      <<Star, Baz, Buzz>>, <<Star, Star, Star>>, <<Star, Star, Zero>>,
      <<StarBar, Star, Buzz>>, <<StarBar, Zero, Buzz>>,
      <<Foo, Star, Baz, Buzz>>, <<Foo, Star, Baz, Quzz>>, <<Foo, Star, Baz, Star>>,
      <<Foo, Zero, Baz, Buzz>>, <<Foo, Star, Star, Star>>}}

Values == {Num(42)}

-----------------------------------------------------------------------------
(* The state machine: one call on a document *)

\* The result of the call's patch_ext_helper(..) and the references in it
Targets(h) == [err |-> h.err, refs |-> h.refs]

Operation(kind, path, value) == [kind |-> kind, path |-> path, value |-> value]

NoOp == Operation("none", Root, Null)

Init ==
  /\ doc \in Docs
  /\ pre = doc
  /\ op = NoOp
  /\ res = "None"
  /\ out = <<>>
  /\ tgts = Targets(NoHelp)

\* The state after patch_ext(&mut doc, p) returned r
Returned(p, r) ==
  /\ doc' = r.val
  /\ res' = r.err
  /\ tgts' = Targets(r.helped)
  /\ pre' = doc
  /\ op' = p
  /\ out' = <<>>

\* patch_ext(&mut doc, add_operation(path, value))
Add(path, value) ==
  /\ op = NoOp
  /\ \E r \in {patch_ext(doc, Operation("add", path, value))} :
        Returned(Operation("add", path, value), r)

\* patch_ext(&mut doc, replace_operation(path, value))
Replace(path, value) ==
  /\ op = NoOp
  /\ \E r \in {patch_ext(doc, Operation("replace", path, value))} :
        Returned(Operation("replace", path, value), r)

\* patch_ext(&mut doc, remove_operation(path))
Remove(path) ==
  /\ op = NoOp
  /\ \E r \in {patch_ext(doc, Operation("remove", path, Null))} :
        Returned(Operation("remove", path, Null), r)

\* matches(&path, &doc): the document is borrowed immutably
Matches(path) ==
  /\ op = NoOp
  /\ out' = matches(path, doc)
  /\ op' = Operation("matches", path, Null)
  /\ res' = "Ok"
  /\ pre' = doc
  /\ UNCHANGED <<doc, tgts>>

Next ==
  \/ \E path \in Paths, value \in Values : Add(path, value)
  \/ \E path \in Paths, value \in Values : Replace(path, value)
  \/ \E path \in Paths : Remove(path)
  \/ \E path \in Paths : Matches(path)

Spec == Init /\ [][Next]_vars

-----------------------------------------------------------------------------
(* Vocabulary of the properties.  A path is read here the way the          *)
(* documentation reads it: as its sequence of decoded segments, of which   *)
(* a segment that is exactly `*` is the wildcard.  A location is a path    *)
(* without wildcards, array indices written in decimal.                    *)

\* The decoded segments of a pointer
RECURSIVE Tokens(_)
Tokens(p) == IF ~HasFront(p) THEN <<>> ELSE <<Decode(FrontTok(p))>> \o Tokens(FrontRest(p))

Range(s) == {s[i] : i \in 1..Len(s)}

\* The node at a location
At(loc, v) == Resolve(FromTokens(loc), v)

\* The segments of the last call's path, the path before its last segment
\* and that last segment
OpToks == Tokens(op.path)
OpParent == SubSeq(OpToks, 1, Len(OpToks) - 1)
OpLast == OpToks[Len(OpToks)]

\* Every segment that begins with `*` is the wildcard itself
StarIsExact(toks) == \A i \in 1..Len(toks) : toks[i][1] = "*" => toks[i] = Star

\* The locations in S that continue below the segment tok
Under(S, tok) == {Tail(x) : x \in {y \in S : y # <<>> /\ Head(y) = tok}}

\* a and b are the same document except at and below the locations in S
\* (a location of S may be present in one and absent in the other)
RECURSIVE SameExcept(_, _, _)
SameExcept(a, b, S) ==
  IF <<>> \in S THEN TRUE
  ELSE IF a.t # b.t THEN FALSE
  ELSE IF a.t = "obj"
  THEN \A key \in (DOMAIN a.o) \cup (DOMAIN b.o) :
         \/ <<key>> \in S
         \/ /\ key \in (DOMAIN a.o) \cap (DOMAIN b.o)
            /\ SameExcept(a.o[key], b.o[key], Under(S, key))
  ELSE IF a.t = "arr"
  THEN /\ Len(a.a) = Len(b.a)
       /\ \A i \in 1..Len(a.a) : SameExcept(a.a[i], b.a[i], Under(S, Dec(i - 1)))
  ELSE a = b

\* The locations a path denotes in v: a wildcard stands for every index of
\* the array at its position (and for nothing where there is no array), a
\* literal segment for itself where it resolves
RECURSIVE Denoted(_, _)
Denoted(toks, v) ==
  IF toks = <<>> THEN {<<>>}
  ELSE IF Head(toks) = Star
  THEN IF v.t = "arr"
       THEN UNION {{<<Dec(i - 1)>> \o r : r \in Denoted(Tail(toks), v.a[i])} : i \in 1..Len(v.a)}
       ELSE {}
  ELSE IF At(<<Head(toks)>>, v).ok
  THEN {<<Head(toks)>> \o r : r \in Denoted(Tail(toks), At(<<Head(toks)>>, v).v)}
  ELSE {}

\* Every wildcard position that the path reaches in v holds an array
RECURSIVE WildcardsAreArrays(_, _)
WildcardsAreArrays(toks, v) ==
  IF toks = <<>> THEN TRUE
  ELSE IF Head(toks) = Star
  THEN /\ v.t = "arr"
       /\ \A i \in 1..Len(v.a) : WildcardsAreArrays(Tail(toks), v.a[i])
  ELSE At(<<Head(toks)>>, v).ok => WildcardsAreArrays(Tail(toks), At(<<Head(toks)>>, v).v)

\* Location a comes before location b in ascending-index, depth-first order
RECURSIVE Before(_, _)
Before(a, b) ==
  /\ a # <<>>
  /\ b # <<>>
  /\ IF Head(a) = Head(b) THEN Before(Tail(a), Tail(b))
     ELSE /\ ToIndex(Head(a)).k = "num"
          /\ ToIndex(Head(b)).k = "num"
          /\ ToIndex(Head(a)).n < ToIndex(Head(b)).n

-----------------------------------------------------------------------------
(* Properties *)

\* C10: Add and Replace with the empty (root) path return Ok and leave the
\* document as it was (the value does not become the root); Remove with the
\* empty path returns Ok and leaves the document null.
RootPathCalls ==
  /\ (op.kind \in {"add", "replace"} /\ op.path = Root) => (res = "Ok" /\ doc = pre)
  /\ (op.kind = "remove" /\ op.path = Root) => (res = "Ok" /\ doc = Null)

\* An Add of a value at the root of a document that is not that value
RootPathAddSeen ==
  /\ op.kind = "add"
  /\ op.path = Root
  /\ pre # op.value
  /\ pre # Null
  /\ res = "Ok"

\* The targets of the last call, as locations
Refs == [i \in 1..Len(tgts.refs) |-> Tokens(tgts.refs[i])]

\* The i-th target of the last call was, before the call, an object without
\* the key the path ends in
Lacks(i) == OpLast \notin DOMAIN At(Refs[i], pre).v.o

\* A Replace through a wildcard whose targets are all objects, some of them
\* without the key
ReplaceHitsMissingKey ==
  /\ op.kind = "replace"
  /\ op.path # Root
  /\ Star \in Range(OpParent)
  /\ tgts.err = "Ok"
  /\ \A i \in 1..Len(Refs) : At(Refs[i], pre).ok /\ At(Refs[i], pre).v.t = "obj"
  /\ \E i \in 1..Len(Refs) : Lacks(i)

FirstLacking == CHOOSE k \in 1..Len(Refs) : Lacks(k) /\ \A i \in 1..(k - 1) : ~Lacks(i)

\* C4: a wildcard Replace whose targets, in ascending index order, are N
\* objects of which the k-th is the first without the key returns
\* TargetDoesNotExist; the first k-1 targets hold the new value under the
\* key; target k, the later targets and the rest of the document are as
\* they were.
ReplaceLeavesEarlierEdits ==
  ReplaceHitsMissingKey =>
    /\ res = "TargetDoesNotExist"
    /\ \A i, j \in 1..Len(Refs) : i < j => Before(Refs[i], Refs[j])
    /\ \A i \in 1..(FirstLacking - 1) :
         At(Refs[i], doc) = Found(Obj(MapInsert(At(Refs[i], pre).v.o, OpLast, op.value)))
    /\ \A i \in FirstLacking..Len(Refs) : At(Refs[i], doc) = At(Refs[i], pre)
    /\ SameExcept(pre, doc, {Refs[i] \o <<OpLast>> : i \in 1..(FirstLacking - 1)})

\* A wildcard Replace that failed at its second target after changing the
\* first
ReplaceFailedMidway ==
  /\ ReplaceHitsMissingKey
  /\ FirstLacking = 2
  /\ doc # pre

\* The last call was an Add whose path is H/*/T/k: position i holds the
\* only wildcard, H resolves to an array, and T resolves to an object in
\* every element of it
FanOutAt(i) ==
  /\ op.kind = "add"
  /\ i < Len(OpToks)
  /\ OpToks[i] = Star
  /\ \A j \in 1..(Len(OpToks) - 1) : OpToks[j] = Star => j = i
  /\ At(SubSeq(OpToks, 1, i - 1), pre).ok
  /\ At(SubSeq(OpToks, 1, i - 1), pre).v.t = "arr"
  /\ \A e \in Range(At(SubSeq(OpToks, 1, i - 1), pre).v.a) :
       /\ At(SubSeq(OpToks, i + 1, Len(OpToks) - 1), e).ok
       /\ At(SubSeq(OpToks, i + 1, Len(OpToks) - 1), e).v.t = "obj"

\* The location of the object at T in element j (counted from 1) of the
\* array at H
FanOutTarget(i, j) ==
  SubSeq(OpToks, 1, i - 1) \o <<Dec(j - 1)>> \o SubSeq(OpToks, i + 1, Len(OpToks) - 1)

FanOutLen(i) == Len(At(SubSeq(OpToks, 1, i - 1), pre).v.a)

FanOutDone(i) ==
  /\ res = "Ok"
  /\ \A j \in 1..FanOutLen(i) :
       At(FanOutTarget(i, j), doc)
         = Found(Obj(MapInsert(At(FanOutTarget(i, j), pre).v.o, OpLast, op.value)))
  /\ SameExcept(pre, doc, {FanOutTarget(i, j) \o <<OpLast>> : j \in 1..FanOutLen(i)})

\* C1: an Add with path H/*/T/k, where H resolves to an array and T to an
\* object inside every element of it, returns Ok; afterwards the object at
\* T in every element maps k to the value, and every other key of those
\* objects, the array's length and order and the rest of the document are
\* as they were.
AddFansOut == \A i \in 1..Len(OpToks) : FanOutAt(i) => FanOutDone(i)

\* The same for paths in which only `*` itself begins with `*`
AddFansOutWhenStarIsExact ==
  \A i \in 1..Len(OpToks) : (FanOutAt(i) /\ StarIsExact(OpToks)) => FanOutDone(i)

\* Length of the longest array of a document
RECURSIVE MaxArr(_)
MaxArr(v) ==
  IF v.t = "arr"
  THEN CHOOSE m \in {Len(v.a)} \cup {MaxArr(e) : e \in Range(v.a)} :
         \A x \in {Len(v.a)} \cup {MaxArr(e) : e \in Range(v.a)} : x <= m
  ELSE IF v.t = "obj" /\ DOMAIN v.o # {}
  THEN CHOOSE m \in {MaxArr(v.o[key]) : key \in DOMAIN v.o} :
         \A x \in {MaxArr(v.o[key]) : key \in DOMAIN v.o} : x <= m
  ELSE 0

\* The wildcard positions of the last call's path
Wild == {i \in 1..Len(OpToks) : OpToks[i] = Star}

\* The path with index f[i] written at every wildcard position i
Concrete(f) == [i \in 1..Len(OpToks) |-> IF i \in Wild THEN Dec(f[i]) ELSE OpToks[i]]

\* The ways of writing an index at every wildcard position such that the
\* concrete path resolves and every wildcard position holds an array
Instances ==
  {f \in [Wild -> 0..(MaxArr(pre) - 1)] :
     /\ At(Concrete(f), pre).ok
     /\ \A w \in Wild : At(SubSeq(Concrete(f), 1, w - 1), pre).v.t = "arr"}

MatchesAsDenoted ==
  /\ res = "Ok"
  /\ doc = pre
  /\ Len(out) = Cardinality(Instances)
  /\ \A j \in 1..Len(out) :
       \E f \in Instances :
         out[j] = Match(FromTokens(Concrete(f)), At(Concrete(f), pre).v)
  /\ \A j, k \in 1..Len(out) : j < k => Before(Tokens(out[j].p), Tokens(out[k].p))

\* C2: matches(P, D) leaves D alone, does not fail, and returns one entry
\* for each way of writing an index for every wildcard of P such that the
\* concrete path resolves in D with an array at every wildcard position:
\* the concrete path with the value it resolves to, no entry twice, in
\* ascending-index depth-first order.  A P without wildcards yields
\* [(P, resolve(P, D))] when it resolves and nothing when it does not.
MatchesEnumerates == op.kind = "matches" => MatchesAsDenoted

\* The same for paths in which only `*` itself begins with `*`
MatchesEnumeratesWhenStarIsExact ==
  (op.kind = "matches" /\ StarIsExact(OpToks)) => MatchesAsDenoted

\* The first m segments of the last call's path
Prefix(m) == SubSeq(OpToks, 1, m)

\* The last call's path is P/k without a wildcard, and P does not resolve
ParentMissing ==
  /\ op.kind \in {"add", "replace"}
  /\ op.path # Root
  /\ Star \notin Range(OpToks)
  /\ ~At(OpParent, pre).ok

\* The shortest prefix of the path that does not resolve before the call
FirstMissing ==
  Prefix(CHOOSE m \in 1..Len(OpToks) :
           ~At(Prefix(m), pre).ok /\ \A l \in 0..(m - 1) : At(Prefix(l), pre).ok)

ParentCreated ==
  /\ res = "Ok"
  /\ At(OpToks, doc) = Found(op.value)
  /\ \A m \in 1..(Len(OpToks) - 1) :
       ~At(Prefix(m), pre).ok => (At(Prefix(m), doc).ok /\ At(Prefix(m), doc).v.t = "obj")
  /\ DOMAIN At(OpParent, doc).v.o = {OpLast}
  /\ SameExcept(pre, doc, {FirstMissing})

ParentRequired == res = "TargetDoesNotExist" /\ doc = pre

\* C3: for a path P/k without wildcards whose parent P does not resolve, Add
\* returns Ok, creates every missing ancestor along P as an object, sets k
\* to the value in the innermost one and leaves what was there before as it
\* was; Replace returns TargetDoesNotExist and leaves the document as it
\* was.
AddCreatesParents ==
  ParentMissing => IF op.kind = "add" THEN ParentCreated ELSE ParentRequired

\* The same where only `*` itself begins with `*`, every missing segment
\* is a key other than "0" and "-", and the deepest node that is there is
\* an object
AddCreatesParentsUnderObjects ==
  (/\ ParentMissing
   /\ StarIsExact(OpToks)
   /\ \A m \in 1..Len(OpToks) : ~At(Prefix(m), pre).ok => OpToks[m] \notin {Zero, Dash}
   /\ At(SubSeq(FirstMissing, 1, Len(FirstMissing) - 1), pre).v.t = "obj")
    => IF op.kind = "add" THEN ParentCreated ELSE ParentRequired

\* The last call was a Remove whose path ends in a literal key, every
\* wildcard position it reaches is an array, and every parent it denotes
\* is an object
RemoveKeyCase ==
  /\ op.kind = "remove"
  /\ op.path # Root
  /\ OpLast # Star
  /\ WildcardsAreArrays(OpParent, pre)
  /\ \A loc \in Denoted(OpParent, pre) : At(loc, pre).v.t = "obj"

RemoveKeyDone ==
  /\ res = "Ok"
  /\ \A loc \in Denoted(OpParent, pre) :
       At(loc, doc) = Found(Obj(MapRemove(At(loc, pre).v.o, OpLast)))
  /\ SameExcept(pre, doc, {loc \o <<OpLast>> : loc \in Denoted(OpParent, pre)})

\* C5: a Remove whose path ends in a literal key k, where every wildcard
\* position reached is an array and every resolved parent an object,
\* returns Ok and removes k from exactly the parents that hold it; an
\* element in which an intermediate segment is missing and a parent
\* without k change nothing, nor does a path that matches nothing; the
\* rest of the document is as it was.
RemoveSkipsMissing == RemoveKeyCase => RemoveKeyDone

\* The same for paths in which only `*` itself begins with `*`
RemoveSkipsMissingWhenStarIsExact ==
  (RemoveKeyCase /\ StarIsExact(OpToks)) => RemoveKeyDone

\* The arrays that the parent of the last call's path denotes
ParentArrays == {loc \in Denoted(OpParent, pre) : At(loc, pre).v.t = "arr"}

RemoveWildcardCase ==
  /\ op.kind = "remove"
  /\ op.path # Root
  /\ OpLast = Star

RemoveWildcardDone ==
  /\ \A loc \in ParentArrays : At(loc, doc) = Found(EmptyArr)
  /\ SameExcept(pre, doc, ParentArrays)

\* C6: a Remove whose path ends in the wildcard empties every array that
\* the path before it (wildcards allowed) resolves to; the arrays stay
\* where they are and the rest of the document is as it was.
RemoveWildcardClears == RemoveWildcardCase => RemoveWildcardDone

\* The same where only `*` itself begins with `*` and everything the
\* parent path denotes is an array
RemoveWildcardClearsArrays ==
  (/\ RemoveWildcardCase
   /\ StarIsExact(OpToks)
   /\ WildcardsAreArrays(OpParent, pre)
   /\ ParentArrays = Denoted(OpParent, pre))
    => (res = "Ok" /\ RemoveWildcardDone)

\* C7: an Add whose path ends in the wildcard returns an error, whatever
\* the document and the value.
AddToWildcardFails ==
  (op.kind = "add" /\ op.path # Root /\ OpLast = Star) => res # "Ok"

\* The segments before the first wildcard of the path that an Add hands to
\* patch_ext_helper do not resolve
HeadMissing ==
  /\ op.kind = "add"
  /\ op.path # Root
  /\ \E i \in 1..Len(OpParent) :
       /\ OpParent[i] = Star
       /\ Star \notin Range(SubSeq(OpParent, 1, i - 1))
       /\ ~At(SubSeq(OpParent, 1, i - 1), pre).ok

\* C8: an Add whose path has a wildcard after a head that does not resolve
\* has an empty array assigned at the full path it resolves targets for,
\* gets no targets, returns Ok, and inserts its value nowhere.
AddCreatesUniteratedArray ==
  HeadMissing =>
    /\ res = "Ok"
    /\ tgts = Targets(Helped("Ok", Null, <<>>))
    /\ At(OpParent, doc) = Found(EmptyArr)
    /\ doc = Assign(FromTokens(OpParent), pre, EmptyArr).v

\* What an Add with a missing head does instead
AddFailsOnCreatedHead ==
  (HeadMissing /\ StarIsExact(OpToks)) => res \in {"UnexpectedType", "AssignError"}

\* The last call's path is /s/k for a key s that begins with `*` without
\* being `*`, and the document holds an object under s
StarKeyCase ==
  /\ op.kind \in {"add", "replace", "remove"}
  /\ Len(OpToks) = 2
  /\ OpToks[1][1] = "*"
  /\ OpToks[1] # Star
  /\ OpToks[2] # Star
  /\ At(<<OpToks[1]>>, pre).ok
  /\ At(<<OpToks[1]>>, pre).v.t = "obj"

\* The object under s, before the call
StarKeyObj == At(<<OpToks[1]>>, pre).v.o

StarKeyDone ==
  IF op.kind = "replace" /\ OpLast \notin DOMAIN StarKeyObj
  THEN res = "TargetDoesNotExist" /\ doc = pre
  ELSE /\ res = "Ok"
       /\ SameExcept(pre, doc, {OpToks})
       /\ At(<<OpToks[1]>>, doc)
            = Found(Obj(IF op.kind = "remove" THEN MapRemove(StarKeyObj, OpLast)
                        ELSE MapInsert(StarKeyObj, OpLast, op.value)))

\* C9: only a segment that is exactly `*` is the wildcard.  A path none of
\* whose segments is `*` is matched literally, so matches returns
\* [(P, resolve(P, D))] or nothing; add, replace and remove on /s/k, for a
\* key s that merely begins with `*`, edit the object stored under s.
OnlyStarIsWildcard ==
  /\ (op.kind = "matches" /\ Star \notin Range(OpToks)) =>
       out = IF Resolve(op.path, pre).ok
             THEN <<Match(op.path, Resolve(op.path, pre).v)>>
             ELSE <<>>
  /\ StarKeyCase => StarKeyDone

=============================================================================
